---- MODULE Spec2Model ----
(***************************************************************************)
(* The data-mesh join engine of buildly-core: the join record store        *)
(* (datamesh/utils.py), the per-request mesh orchestrator                  *)
(* (datamesh/handle_request.py) and the bulk-import seeders                *)
(* (datamesh/management/commands).                                         *)
(*                                                                         *)
(* A primary key value is named by a short string ("u1", "42"); str gives  *)
(* its text, a sequence of one-character strings.  None is Python's None   *)
(* and SQL's NULL.                                                         *)
(***************************************************************************)
EXTENDS Integers, Sequences, FiniteSets, Bags, TLC

VARIABLES
    store,        \* the JoinRecord table: a bag of rows
    registry,     \* the keys of the Relationship rows
    uniqueRows,   \* whether the JoinRecord table rejects a duplicate row
    last,         \* the last call made on the store, and what it did
    tpc,          \* concurrent validate_join: each task's position
    tfound,       \* concurrent validate_join: what each task's filter() saw
    targ,         \* concurrent validate_join: the triple the tasks were given
    pc,           \* the orchestrator's position in the inbound request
    request,      \* the inbound request object: its method and its data
    kw,           \* request_kwargs, request_param within it
    self,         \* the RequestHandler's fields set by validate_request
    loop,         \* retrieve_relationship_data's loops: the items, the indices
    content,      \* the last backend response: its content and status
    calls,        \* the backend calls issued for the current request
    raised,       \* the exception that ended the request, if one did
    sent,         \* the request as the client sent it, the store as it found it
    nreq,         \* the number of requests started
    models,       \* the LogicModuleModel table: a set of rows
    view,         \* a viewset with SafeUserAccessMixin: its request, if it has one
    result        \* the last call of a helper: its name, arguments and value

storeVars == <<store, registry, uniqueRows, last>>
taskVars == <<tpc, tfound, targ>>
reqVars == <<pc, request, kw, self, loop, content, calls, raised, sent, nreq>>
helperVars == <<models, view, result>>
vars == <<store, registry, uniqueRows, last, tpc, tfound, targ,
          pc, request, kw, self, loop, content, calls, raised, sent, nreq,
          models, view, result>>

-----------------------------------------------------------------------------
(* Values *)

None == "None"

PKs == {"1", "10", "42", "43", "44", "u1", "u2", "u3", "u4", "u5"}

\* str(v): the text of a value
str ==
    [v \in PKs \cup {None} |->
        CASE v = "1"  -> <<"1">>
          [] v = "10" -> <<"1","0">>
          [] v = "42" -> <<"4","2">>
          [] v = "43" -> <<"4","3">>
          [] v = "44" -> <<"4","4">>
          [] v = "u1" -> <<"5","5","0","e","8","4","0","0","-","e","2","9","b","-","4","1","d","4","-","a","7","1","6","-","4","4","6","6","5","5","4","4","0","0","0","0">>
          [] v = "u2" -> <<"1","2","3","e","4","5","6","7","-","e","8","9","b","-","4","2","d","3","-","a","4","5","6","-","4","2","6","6","1","4","1","7","4","0","0","0">>
          [] v = "u3" -> <<"9","f","8","b","7","c","6","d","-","5","e","4","f","-","4","a","3","b","-","8","c","2","d","-","1","e","0","f","9","a","8","b","7","c","6","d">>
          [] v = "u4" -> <<"6","b","a","7","b","8","1","0","-","9","d","a","d","-","4","1","d","1","-","8","0","b","4","-","0","0","c","0","4","f","d","4","3","0","c","8">>
          [] v = "u5" -> <<"1","6","f","d","2","7","0","6","-","8","b","a","f","-","4","3","3","b","-","8","2","e","b","-","8","c","7","f","a","d","a","8","4","7","d","a">>
          [] v = None -> <<"N","o","n","e">>]

TeamKey == "product_product_team_relationship"
ToolKey == "product_product_tool_relationship"
UserKey == "product_tool_user_relationship"

-----------------------------------------------------------------------------
(* Bounds *)

\* the JoinRecord table holds at most this many rows
MaxRows == 2
\* the number of tasks that call validate_join concurrently
NTasks == 3
\* the number of sub-objects a relationship's list holds at most
MaxSubs == 2
\* the number of times a request is issued
MaxRequests == 2

-----------------------------------------------------------------------------
(* A: the PK-type discriminator *)

HexDigits == {"0","1","2","3","4","5","6","7","8","9",
              "a","b","c","d","e","f","A","B","C","D","E","F"}

Lower(c) ==
    CASE c = "A" -> "a" [] c = "B" -> "b" [] c = "C" -> "c"
      [] c = "D" -> "d" [] c = "E" -> "e" [] c = "F" -> "f"
      [] OTHER -> c

\* gateway.utils.valid_uuid4: the text is an RFC-4122 version 4 UUID
valid_uuid4(s) ==
    /\ Len(s) = 36
    /\ \A i \in 1..36 :
          IF i \in {9, 14, 19, 24} THEN s[i] = "-"
          ELSE IF i = 15 THEN s[i] = "4"
          ELSE IF i = 20 THEN Lower(s[i]) \in {"8", "9", "a", "b"}
          ELSE s[i] \in HexDigits

\* valid_uuid4(str(v)), worked out once for every value
valid_uuid4_str == [v \in DOMAIN str |-> valid_uuid4(str[v])]

\* validate_primary_key, with the two branches that store the origin PK swapped
validate_primary_key_swapped(origin_model_pk, related_model_pk) ==
    LET origin_pk_type == IF valid_uuid4_str[origin_model_pk] THEN "uuid" ELSE "id"
        related_pk_type == IF valid_uuid4_str[related_model_pk] THEN "uuid" ELSE "id"
    IN  IF origin_pk_type = "id" /\ related_pk_type = "id"
        THEN [record_id |-> origin_model_pk, related_record_id |-> related_model_pk]
        ELSE IF origin_pk_type = "uuid" /\ related_pk_type = "uuid"
        THEN [record_uuid |-> origin_model_pk, related_record_uuid |-> related_model_pk]
        ELSE IF origin_pk_type = "uuid" /\ related_pk_type = "id"
        THEN [record_id |-> origin_model_pk, related_record_id |-> related_model_pk]
        ELSE [record_id |-> origin_model_pk, related_record_uuid |-> related_model_pk]

validate_primary_key(origin_model_pk, related_model_pk) ==
    LET origin_pk_type == IF valid_uuid4_str[origin_model_pk] THEN "uuid" ELSE "id"
        related_pk_type == IF valid_uuid4_str[related_model_pk] THEN "uuid" ELSE "id"
    IN  IF origin_pk_type = "id" /\ related_pk_type = "id"
        THEN [record_id |-> origin_model_pk, related_record_id |-> related_model_pk]
        ELSE IF origin_pk_type = "uuid" /\ related_pk_type = "uuid"
        THEN [record_uuid |-> origin_model_pk, related_record_uuid |-> related_model_pk]
        ELSE IF origin_pk_type = "uuid" /\ related_pk_type = "id"
        THEN [record_uuid |-> origin_model_pk, related_record_id |-> related_model_pk]
        ELSE [record_id |-> origin_model_pk, related_record_uuid |-> related_model_pk]

-----------------------------------------------------------------------------
(* C: the join record store.  js is the content of the JoinRecord table; a  *)
(* call yields [js |-> the new content, raised |-> the exception, or "".    *)

PkFields == {"record_id", "record_uuid", "related_record_id", "related_record_uuid"}

\* a dict without entries (falsy, like None, where a dict is expected)
NoDict == <<>>

Get(dict, key) == IF key \in DOMAIN dict THEN dict[key] ELSE None

Row(relationship, pk_dict, organization) ==
    [relationship        |-> relationship,
     record_id           |-> Get(pk_dict, "record_id"),
     record_uuid         |-> Get(pk_dict, "record_uuid"),
     related_record_id   |-> Get(pk_dict, "related_record_id"),
     related_record_uuid |-> Get(pk_dict, "related_record_uuid"),
     organization        |-> organization]

Rows(js) == BagToSet(js)

MatchesPk(row, pk_dict) == \A f \in DOMAIN pk_dict : row[f] = pk_dict[f]

\* the rows of js that are in S, each as often as js holds it
Restrict(js, S) == IF S = {} THEN EmptyBag ELSE [row \in S |-> js[row]]

\* JoinRecord.objects.filter(**pk_dict, relationship__key=relationship)
objects_filter(js, pk_dict, relationship) ==
    Restrict(js, {row \in Rows(js) : row.relationship = relationship /\ MatchesPk(row, pk_dict)})

Count(js, pk_dict, relationship) == BagCardinality(objects_filter(js, pk_dict, relationship))

\* Relationship.objects.filter(key=relationship).first()
relationship_first(key) == IF key \in registry THEN key ELSE None

\* the JoinRecord table's constraints: it refuses a row without a
\* relationship and, when it enforces uniqueness, a row it already holds
integrity_error(js, row) ==
    row.relationship = None \/ (uniqueRows /\ BagIn(row, js))

\* JoinRecord.objects.create(...) on a table without constraints
objects_create_unconstrained(js, row) ==
    [js |-> js (+) SetToBag({row}), raised |-> ""]

\* JoinRecord.objects.create(...)
objects_create(js, row) ==
    IF integrity_error(js, row)
    THEN [js |-> js, raised |-> "IntegrityError"]
    ELSE [js |-> js (+) SetToBag({row}), raised |-> ""]

\* join_record that reuses the caller's pk_dict only for the origin side
join_record_related_lost(js, relationship, origin_model_pk, related_model_pk, pk_dict) ==
    LET d == IF DOMAIN pk_dict = {}
             THEN validate_primary_key(origin_model_pk, related_model_pk)
             ELSE pk_dict
        d1 == [f \in DOMAIN d \cap {"record_id", "record_uuid"} |-> d[f]]
    IN  objects_create(js, Row(relationship_first(relationship), d1, None))

\* join_record that writes the row into the session's organization
join_record_in_organization(js, relationship, origin_model_pk, related_model_pk, pk_dict) ==
    LET d == IF DOMAIN pk_dict = {}
             THEN validate_primary_key(origin_model_pk, related_model_pk)
             ELSE pk_dict
    IN  objects_create(js, Row(relationship_first(relationship), d, "org1"))

join_record(js, relationship, origin_model_pk, related_model_pk, pk_dict) ==
    LET d == IF DOMAIN pk_dict = {}
             THEN validate_primary_key(origin_model_pk, related_model_pk)
             ELSE pk_dict
    IN  objects_create(js, Row(relationship_first(relationship), d, None))

\* validate_join that inserts without looking
validate_join_unchecked(js, record_uuid, related_record_uuid, relationship) ==
    LET pk_dict == validate_primary_key(record_uuid, related_record_uuid)
    IN  join_record(js, relationship, None, None, pk_dict)

validate_join(js, record_uuid, related_record_uuid, relationship) ==
    LET pk_dict == validate_primary_key(record_uuid, related_record_uuid)
        join_record_instance == objects_filter(js, pk_dict, relationship)
    IN  IF join_record_instance = EmptyBag
        THEN join_record(js, relationship, None, None, pk_dict)
        ELSE [js |-> js, raised |-> ""]

\* text s holds text t as a contiguous part, letter case ignored
contains_text(s, t) ==
    \E i \in 0..(Len(s) - Len(t)) :
        \A j \in 1..Len(t) : Lower(s[i + j]) = Lower(t[j])

contains_str == [v \in PKs, w \in PKs |-> contains_text(str[v], str[w])]

\* the lookup <field>__icontains=pk on a row's field; NULL matches nothing
icontains(field, pk) == field # None /\ contains_str[field, pk]

\* delete_join_record that looks for pk on the origin side alone
delete_join_record_origin_side(js, pk, previous_pk) ==
    LET pk_query_set == {row \in Rows(js) :
                            \E f \in {"record_id", "record_uuid"} : icontains(row[f], pk)}
        d1 == validate_primary_key(pk, previous_pk)
        d2 == validate_primary_key(previous_pk, pk)
        gone == {row \in pk_query_set : MatchesPk(row, d1) \/ MatchesPk(row, d2)}
    IN  IF pk = None
        THEN [js |-> js, raised |-> "ValueError"]
        ELSE IF previous_pk # None
        THEN [js |-> Restrict(js, Rows(js) \ gone), raised |-> ""]
        ELSE [js |-> Restrict(js, Rows(js) \ pk_query_set), raised |-> ""]

\* delete_join_record that deletes the joins from pk to previous_pk alone
delete_join_record_one_way(js, pk, previous_pk) ==
    LET pk_query_set == {row \in Rows(js) : \E f \in PkFields : icontains(row[f], pk)}
        d1 == validate_primary_key(pk, previous_pk)
        gone == {row \in pk_query_set : MatchesPk(row, d1)}
    IN  IF pk = None
        THEN [js |-> js, raised |-> "ValueError"]
        ELSE IF previous_pk # None
        THEN [js |-> Restrict(js, Rows(js) \ gone), raised |-> ""]
        ELSE [js |-> Restrict(js, Rows(js) \ pk_query_set), raised |-> ""]

delete_join_record(js, pk, previous_pk) ==
    LET pk_query_set == {row \in Rows(js) : \E f \in PkFields : icontains(row[f], pk)}
        d1 == validate_primary_key(pk, previous_pk)
        d2 == validate_primary_key(previous_pk, pk)
        gone == {row \in pk_query_set : MatchesPk(row, d1) \/ MatchesPk(row, d2)}
    IN  IF pk = None
        THEN \* the ORM refuses None as the value of an icontains lookup
             [js |-> js, raised |-> "ValueError"]
        ELSE IF previous_pk # None
        THEN [js |-> Restrict(js, Rows(js) \ gone), raised |-> ""]
        ELSE [js |-> Restrict(js, Rows(js) \ pk_query_set), raised |-> ""]

-----------------------------------------------------------------------------
(* The bulk-import seeders *)

\* get_or_create that creates without looking
get_or_create_creates(js, relationship, record_uuid, related_record_uuid) ==
    objects_create(js, Row(relationship,
                           [record_uuid |-> record_uuid,
                            related_record_uuid |-> related_record_uuid], None))

\* JoinRecord.objects.get_or_create(relationship=..., record_uuid=...,
\* related_record_uuid=..., defaults={'organization': None})
get_or_create(js, relationship, record_uuid, related_record_uuid) ==
    LET d == [record_uuid |-> record_uuid, related_record_uuid |-> related_record_uuid]
        n == Count(js, d, relationship)
    IN  IF n = 1 THEN [js |-> js, raised |-> ""]
        ELSE IF n > 1 THEN [js |-> js, raised |-> "MultipleObjectsReturned"]
        ELSE objects_create(js, Row(relationship, d, None))

\* the loop over the loaded JSON data: one get_or_create per entry whose
\* related field is not empty
RECURSIVE seed_loop(_, _, _, _)
seed_loop(js, relationship, model_data, field) ==
    IF model_data = <<>> THEN [js |-> js, raised |-> ""]
    ELSE LET related_data == Head(model_data)
             related == related_data[field]
         IN  IF related = None
             THEN seed_loop(js, relationship, Tail(model_data), field)
             ELSE LET r == get_or_create(js, relationship, related_data.pk, related)
                  IN  IF r.raised # "" THEN r
                      ELSE seed_loop(r.js, relationship, Tail(model_data), field)

product_product_tool_relationship(js, model_data) ==
    seed_loop(js, ToolKey, model_data, "product_tool")

product_product_team_relationship(js, model_data) ==
    seed_loop(js, TeamKey, model_data, "product_team")

\* the LogicModuleModel rows of the seeders
LogicModuleModel(model, logic_module_endpoint_name, endpoint, lookup_field_name, is_local) ==
    [model |-> model, logic_module_endpoint_name |-> logic_module_endpoint_name,
     endpoint |-> endpoint, lookup_field_name |-> lookup_field_name,
     is_local |-> is_local]

ProductModel == LogicModuleModel("Product", "product", "/product/", "product_uuid", FALSE)
ProductTeamModel ==
    LogicModuleModel("ProductTeam", "product", "/productteam/", "product_team_uuid", FALSE)
ProductToolsModel ==
    LogicModuleModel("ProductTools", "product", "/producttools/", "product_tool_uuid", FALSE)
CoreUserModel == LogicModuleModel("CoreUser", "core", "/coreuser/", "core_user_uuid", TRUE)

\* LogicModuleModel.objects.get_or_create(model=..., ...): the table with the
\* row in it
models_get_or_create(ms, row) == ms \cup {row}

\* re.findall(r'[0-9a-f]{8}(?:-[0-9a-f]{4}){4}[0-9a-f]{8}', ...) on one
\* entry of the text: the entry is a UUID in lower case
LowerHexDigits == {"0","1","2","3","4","5","6","7","8","9","a","b","c","d","e","f"}

re_uuid(s) ==
    /\ Len(s) = 36
    /\ \A i \in 1..36 :
          IF i \in {9, 14, 19, 24} THEN s[i] = "-" ELSE s[i] \in LowerHexDigits

re_uuid_str == [v \in DOMAIN str |-> re_uuid(str[v])]

\* re.findall over the users text, an entry at a time
RECURSIVE findall(_)
findall(users) ==
    IF users = <<>> THEN <<>>
    ELSE IF re_uuid_str[Head(users)]
    THEN <<Head(users)>> \o findall(Tail(users))
    ELSE findall(Tail(users))

\* the row get_or_create returns: the one of the relationship with the pair
got(js, relationship, record_uuid, related_record_uuid) ==
    CHOOSE row \in Rows(js) :
        /\ row.relationship = relationship
        /\ row.record_uuid = record_uuid
        /\ row.related_record_uuid = related_record_uuid

\* product_tool_users_relationship's inner loop: one get_or_create per user
\* of the product tool, the rows it returns are eligible
RECURSIVE users_loop(_, _, _, _)
users_loop(js, pk, user_uuid_list, eligible) ==
    IF user_uuid_list = <<>> THEN [js |-> js, raised |-> "", eligible |-> eligible]
    ELSE LET r == get_or_create(js, UserKey, pk, Head(user_uuid_list))
         IN  IF r.raised # "" THEN [js |-> r.js, raised |-> r.raised, eligible |-> eligible]
             ELSE users_loop(r.js, pk, Tail(user_uuid_list),
                             eligible \cup {got(r.js, UserKey, pk, Head(user_uuid_list))})

\* its outer loop over the loaded JSON data
RECURSIVE tools_loop(_, _, _)
tools_loop(js, model_data, eligible) ==
    IF model_data = <<>> THEN [js |-> js, raised |-> "", eligible |-> eligible]
    ELSE LET data == Head(model_data)
         IN  IF data.users = <<>>
             THEN tools_loop(js, Tail(model_data), eligible)
             ELSE LET r == users_loop(js, data.pk, findall(data.users), eligible)
                  IN  IF r.raised # "" THEN r
                      ELSE tools_loop(r.js, Tail(model_data), r.eligible)

\* product_tool_users_relationship that leaves the other JoinRecords of its
\* relationship in place
product_tool_users_relationship_keeps(js, model_data) ==
    LET r == tools_loop(js, model_data, {})
    IN  [js |-> r.js, raised |-> r.raised]

\* product_tool_users_relationship: the loops, then
\* JoinRecord.objects.exclude(pk__in=eligible_join_records)
\*     .filter(relationship=relationship).delete()
product_tool_users_relationship(js, model_data) ==
    LET r == tools_loop(js, model_data, {})
    IN  IF r.raised # "" THEN [js |-> r.js, raised |-> r.raised]
        ELSE [js |-> Restrict(r.js, {row \in Rows(r.js) :
                                        row.relationship # UserKey \/ row \in r.eligible}),
              raised |-> ""]

\* run_seed: the three seeders one after the other, up to the first
\* exception; each registers its models and its relationship before it
\* reads the data.  mid is the table as the product tool seeder found it
run_seed(js, ms, reg, product_json, product_team_json) ==
    LET team == product_product_team_relationship(js, product_json)
        ms1 == models_get_or_create(models_get_or_create(ms, ProductModel), ProductTeamModel)
        tool == product_product_tool_relationship(team.js, product_json)
        ms2 == models_get_or_create(models_get_or_create(ms1, ProductModel), ProductToolsModel)
        users == product_tool_users_relationship(tool.js, product_team_json)
        ms3 == models_get_or_create(models_get_or_create(ms2, ProductToolsModel), CoreUserModel)
    IN  IF team.raised # ""
        THEN [js |-> team.js, raised |-> team.raised, models |-> ms1,
              registry |-> reg \cup {TeamKey}, mid |-> js, reached |-> FALSE]
        ELSE IF tool.raised # ""
        THEN [js |-> tool.js, raised |-> tool.raised, models |-> ms2,
              registry |-> reg \cup {TeamKey, ToolKey}, mid |-> js, reached |-> FALSE]
        ELSE [js |-> users.js, raised |-> users.raised, models |-> ms3,
              registry |-> reg \cup {TeamKey, ToolKey, UserKey},
              mid |-> tool.js, reached |-> TRUE]

-----------------------------------------------------------------------------
(* Inputs *)

\* the primary keys callers pass to the store
StorePKs == {"1", "u1", "u2"}

StoreKeys == {TeamKey, ToolKey}

\* the contents of product.json
SeedFiles ==
    {<<>>,
     <<[pk |-> "u1", product_tool |-> "u2", product_team |-> None]>>,
     <<[pk |-> "u2", product_tool |-> None, product_team |-> "u1"],
       [pk |-> "u1", product_tool |-> "u2", product_team |-> "u2"]>>}

Tasks == 1..NTasks

NoCall == [op |-> "none", origin |-> None, related |-> None, relationship |-> None,
           before |-> 0, inserted |-> 0, raised |-> "", streak |-> 0, before0 |-> 0,
           was |-> EmptyBag]

\* Whether call (op, o, r, k) repeats the call before it: both validate_join,
\* the same triple, and the one before raised nothing
Repeats(op, o, r, k) ==
    /\ op = "validate_join" /\ last.op = "validate_join" /\ last.raised = ""
    /\ last.origin = o /\ last.related = r /\ last.relationship = k

\* what a call on the store did: its arguments, the number of rows of its
\* triple before it, the number of rows it added, the exception it raised,
\* its place in a run of repeated calls (2 for the second and later ones) and
\* the number of rows of the triple before the first call of the run; was is
\* the table before the call, kept for delete_join_record alone
Called(op, o, r, k, res) ==
    LET before == Count(store, validate_primary_key(o, r), k)
    IN  [op |-> op, origin |-> o, related |-> r, relationship |-> k,
         before |-> before,
         inserted |-> BagCardinality(res.js) - BagCardinality(store),
         raised |-> res.raised,
         streak |-> IF Repeats(op, o, r, k) THEN 2 ELSE 1,
         before0 |-> IF Repeats(op, o, r, k) THEN last.before0 ELSE before,
         was |-> EmptyBag]

Fits(js) == BagCardinality(js) <= MaxRows

-----------------------------------------------------------------------------
(* SpecStore: callers use the store one call at a time *)

\* no inbound request is being handled
NoRequest ==
    /\ pc = "idle"
    /\ request = [method |-> None, data |-> <<>>]
    /\ kw = <<>>
    /\ self = <<>>
    /\ loop = [items |-> <<>>, ri |-> 1, ii |-> 0]
    /\ content = <<>>
    /\ calls = <<>>
    /\ raised = ""
    /\ sent = <<>>
    /\ nreq = 0

\* no seeder has run and no helper has been called
HelpersIdle ==
    /\ models = {}
    /\ view = <<>>
    /\ result = <<>>

TasksIdle ==
    /\ tpc = [t \in Tasks |-> "idle"]
    /\ tfound = [t \in Tasks |-> FALSE]
    /\ targ = [origin |-> None, related |-> None, relationship |-> None]

InitStore ==
    /\ store = EmptyBag
    /\ registry = {TeamKey}
    /\ uniqueRows \in BOOLEAN
    /\ last = NoCall
    /\ TasksIdle
    /\ NoRequest
    /\ HelpersIdle

CallValidateJoin(o, r, k) ==
    /\ LET res == validate_join(store, o, r, k)
       IN  /\ Fits(res.js)
           /\ store' = res.js
           /\ last' = Called("validate_join", o, r, k, res)
    /\ UNCHANGED <<helperVars, registry, uniqueRows, taskVars, reqVars>>

CallJoinRecord(o, r, k) ==
    /\ LET res == join_record(store, k, o, r, NoDict)
       IN  /\ Fits(res.js)
           /\ store' = res.js
           /\ last' = Called("join_record", o, r, k, res)
    /\ UNCHANGED <<helperVars, registry, uniqueRows, taskVars, reqVars>>

CallDeleteJoinRecord(pk, previous_pk) ==
    /\ LET res == delete_join_record(store, pk, previous_pk)
       IN  /\ store' = res.js
           /\ last' = [NoCall EXCEPT !.op = "delete_join_record", !.raised = res.raised,
                                     !.origin = pk, !.related = previous_pk,
                                     !.was = store]
    /\ UNCHANGED <<helperVars, registry, uniqueRows, taskVars, reqVars>>

\* run_seed's two product seeders; each registers its Relationship first
SeedProductTeam(model_data) ==
    /\ registry' = registry \cup {TeamKey}
    /\ LET res == product_product_team_relationship(store, model_data)
       IN  /\ Fits(res.js)
           /\ store' = res.js
           /\ last' = [NoCall EXCEPT !.op = "seed", !.raised = res.raised]
    /\ UNCHANGED <<helperVars, uniqueRows, taskVars, reqVars>>

SeedProductTool(model_data) ==
    /\ registry' = registry \cup {ToolKey}
    /\ LET res == product_product_tool_relationship(store, model_data)
       IN  /\ Fits(res.js)
           /\ store' = res.js
           /\ last' = [NoCall EXCEPT !.op = "seed", !.raised = res.raised]
    /\ UNCHANGED <<helperVars, uniqueRows, taskVars, reqVars>>

NextStore ==
    \/ \E o \in StorePKs, r \in StorePKs, k \in StoreKeys : CallValidateJoin(o, r, k)
    \/ \E o \in StorePKs, r \in StorePKs, k \in StoreKeys : CallJoinRecord(o, r, k)
    \/ \E pk \in StorePKs, previous_pk \in StorePKs \cup {None} :
          CallDeleteJoinRecord(pk, previous_pk)
    \/ \E model_data \in SeedFiles : SeedProductTeam(model_data)
    \/ \E model_data \in SeedFiles : SeedProductTool(model_data)

SpecStore == InitStore /\ [][NextStore]_vars

-----------------------------------------------------------------------------
(* SpecTasks: NTasks tasks call validate_join with one triple, each call    *)
(* two steps: the filter() it evaluates, then the create() it may make      *)

InitTasks ==
    /\ store = EmptyBag
    /\ registry = {TeamKey}
    /\ uniqueRows \in BOOLEAN
    /\ last = NoCall
    /\ tpc = [t \in Tasks |-> "start"]
    /\ tfound = [t \in Tasks |-> FALSE]
    /\ targ \in [origin : StorePKs, related : StorePKs, relationship : {TeamKey}]
    /\ NoRequest
    /\ HelpersIdle

\* validate_join up to its test of the queryset
TaskFilter(t) ==
    /\ tpc[t] = "start"
    /\ LET pk_dict == validate_primary_key(targ.origin, targ.related)
           join_record_instance == objects_filter(store, pk_dict, targ.relationship)
       IN  tfound' = [tfound EXCEPT ![t] = (join_record_instance # EmptyBag)]
    /\ tpc' = [tpc EXCEPT ![t] = "checked"]
    /\ UNCHANGED <<helperVars, store, registry, uniqueRows, last, targ, reqVars>>

\* validate_join from its test on: join_record when the queryset was empty
TaskCreate(t) ==
    /\ tpc[t] = "checked"
    /\ LET pk_dict == validate_primary_key(targ.origin, targ.related)
           res == IF tfound[t]
                  THEN [js |-> store, raised |-> ""]
                  ELSE join_record(store, targ.relationship, None, None, pk_dict)
       IN  /\ store' = res.js
           /\ tpc' = [tpc EXCEPT ![t] = IF res.raised = "" THEN "done" ELSE "failed"]
    /\ UNCHANGED <<helperVars, registry, uniqueRows, last, tfound, targ, reqVars>>

NextTasks == \E t \in Tasks : TaskFilter(t) \/ TaskCreate(t)

SpecTasks == InitTasks /\ [][NextTasks]_vars

-----------------------------------------------------------------------------
(* H: the mesh orchestrator (RequestHandler).  A dict is a function on its  *)
(* keys; resp_data, whose key order the handler reads, is a sequence of     *)
(* [k, v] entries.                                                          *)

Put(dict, key, value) ==
    [x \in DOMAIN dict \cup {key} |-> IF x = key THEN value ELSE dict[x]]

\* resp_data.get(key)
get(d, key) ==
    IF \E i \in DOMAIN d : d[i].k = key
    THEN d[CHOOSE i \in DOMAIN d : d[i].k = key].v
    ELSE None

\* key in resp_data
has(d, key) == \E i \in DOMAIN d : d[i].k = key

\* list(resp_data.keys())
keys(d) == [i \in DOMAIN d |-> d[i].k]

\* Python's a and b, on two strings
py_and(a, b) == IF a = "" THEN a ELSE b

\* the parameters of the functions of datamesh/utils.py
validate_join_params == {"record_uuid", "related_record_uuid", "relationship"}
join_record_params == {"relationship", "origin_model_pk", "related_model_pk", "pk_dict"}
delete_join_record_params == {"pk", "previous_pk"}

\* a call by keyword binds when its keywords are the function's parameters
binds(kwargs, params) == DOMAIN kwargs = params

call_validate_join(js, kwargs) ==
    IF binds(kwargs, validate_join_params)
    THEN validate_join(js, kwargs.record_uuid, kwargs.related_record_uuid, kwargs.relationship)
    ELSE [js |-> js, raised |-> "TypeError"]

call_join_record(js, kwargs) ==
    IF binds(kwargs, join_record_params)
    THEN join_record(js, kwargs.relationship, kwargs.origin_model_pk,
                     kwargs.related_model_pk, kwargs.pk_dict)
    ELSE [js |-> js, raised |-> "TypeError"]

call_delete_join_record(js, kwargs) ==
    IF binds(kwargs, delete_join_record_params)
    THEN delete_join_record(js, kwargs.pk, kwargs.previous_pk)
    ELSE [js |-> js, raised |-> "TypeError"]

\* What a method of the handler leaves: the JoinRecord table, the request,
\* request_param, the exception it raised and what it returned
Frame(js, req, request_param, exc, ret) ==
    [js |-> js, request |-> req, request_param |-> request_param,
     raised |-> exc, ret |-> ret]

\* prepare_create_request that leaves the sub-object's foreign key field alone
prepare_create_request_keeps(js, req, k, slf, relationship) ==
    LET pk == IF slf.is_forward_lookup
              THEN get(k.resp_data, slf.origin_model_pk_name)
              ELSE get(k.resp_data, slf.related_model_pk_name)
    IN  IF pk # None /\ slf.fk_field_name # None
        THEN Frame(js, req,
                   [k.request_param EXCEPT ![relationship].method = k.request_method],
                   "", TRUE)
        ELSE Frame(js, req, k.request_param, "", TRUE)

prepare_create_request(js, req, k, slf, relationship) ==
    LET pk == IF slf.is_forward_lookup
              THEN get(k.resp_data, slf.origin_model_pk_name)
              ELSE get(k.resp_data, slf.related_model_pk_name)
    IN  IF pk # None /\ slf.fk_field_name # None
        THEN Frame(js,
                   IF slf.fk_field_name \in DOMAIN req.data
                   THEN [req EXCEPT !.data = Put(req.data, slf.fk_field_name, pk)]
                   ELSE req,
                   [k.request_param EXCEPT ![relationship].method = k.request_method],
                   "", TRUE)
        ELSE Frame(js, req, k.request_param, "", TRUE)

\* prepare_update_request that forgets to put the sub-object's PK into request_param
prepare_update_request_no_pk(js, req, k, slf, relationship) ==
    Frame(js, [req EXCEPT !.method = k.request_method],
          [k.request_param EXCEPT ![relationship].method = k.request_method], "", TRUE)

\* prepare_update_request that takes a sub-object with previous_pk for an
\* ordinary update
prepare_update_request_forwards(js, req, k, slf, relationship) ==
    LET rp == k.request_param[relationship]
        pk == IF ~rp.is_forward_lookup
              THEN Get(req.data, slf.origin_model_pk_name)
              ELSE Get(req.data, slf.related_model_pk_name)
    IN  IF pk = None
        THEN Frame(js, [req EXCEPT !.method = "POST"],
                   [k.request_param EXCEPT ![relationship].pk = None], "", TRUE)
        ELSE Frame(js, [req EXCEPT !.method = k.request_method],
                   [k.request_param EXCEPT ![relationship].method = k.request_method,
                                           ![relationship].pk = pk], "", TRUE)

\* ret is what the method returns: FALSE, or the request (TRUE)
prepare_update_request(js, req, k, slf, relationship) ==
    LET rp == k.request_param[relationship]
        data == req.data
        pk == IF ~rp.is_forward_lookup
              THEN Get(data, slf.origin_model_pk_name)
              ELSE Get(data, slf.related_model_pk_name)
        res_pk == IF ~rp.is_forward_lookup
                  THEN get(k.resp_data, slf.related_model_pk_name)
                  ELSE get(k.resp_data, slf.origin_model_pk_name)
    IN  IF pk = None
        THEN Frame(js,
                   [method |-> "POST",
                    data |-> IF slf.fk_field_name \in DOMAIN data
                             THEN Put(data, slf.fk_field_name, pk)
                             ELSE data,
                    session |-> req.session],
                   [k.request_param EXCEPT ![relationship].pk = None],
                   "", TRUE)
        ELSE
          LET req1 == [req EXCEPT !.method = k.request_method]
              rp1 == [k.request_param EXCEPT ![relationship].method = k.request_method,
                                             ![relationship].pk = pk]
          IN  IF py_and("join", "previous_pk") \in DOMAIN data
              THEN
                LET del == call_delete_join_record(js,
                               [pk |-> res_pk, previous_pk |-> data["previous_pk"]])
                    origin_model_pk ==
                        IF ~rp.is_forward_lookup
                        THEN Get(data, rp.origin_model_pk_name)
                        ELSE get(k.resp_data, rp.origin_model_pk_name)
                    related_model_pk ==
                        IF ~rp.is_forward_lookup
                        THEN get(k.resp_data, rp.related_model_pk_name)
                        ELSE Get(data, rp.related_model_pk_name)
                    vj == call_validate_join(del.js,
                              [origin_model_pk |-> origin_model_pk,
                               related_model_pk |-> related_model_pk,
                               relationship |-> relationship])
                IN  IF del.raised # ""
                    THEN Frame(del.js, req1, rp1, del.raised, FALSE)
                    ELSE Frame(vj.js, req1, rp1, vj.raised, FALSE)
              ELSE Frame(js, req1, rp1, "", TRUE)

\* the fields validate_request sets on the handler
self_fields(req, k, relationship) ==
    LET rp == k.request_param[relationship]
    IN  [organization          |-> Get(req.session, "jwt_organization_uuid"),
         origin_model_pk_name  |-> rp.origin_model_pk_name,
         related_model_pk_name |-> rp.related_model_pk_name,
         fk_field_name         |-> rp.fk_field_name,
         is_forward_lookup     |-> rp.is_forward_lookup]

\* validate_request that writes the join record of a POST with join itself,
\* ahead of the relation request
validate_request_joins_first(js, req, k, relationship) ==
    LET slf == self_fields(req, k, relationship)
        r == call_join_record(js,
                 [relationship |-> relationship,
                  origin_model_pk |-> get(k.resp_data, slf.origin_model_pk_name),
                  related_model_pk |-> Get(req.data, slf.related_model_pk_name),
                  pk_dict |-> NoDict])
    IN  IF req.method = "POST" /\ "join" \in k.query_params
        THEN prepare_create_request(r.js, req, k, slf, relationship)
        ELSE IF req.method \in {"PUT", "PATCH"} /\ "join" \in k.query_params
        THEN prepare_update_request(js, req, k, slf, relationship)
        ELSE Frame(js, req, k.request_param, "", TRUE)

\* validate_request up to its call of perform_request; ret tells whether
\* that call is reached
validate_request(js, req, k, relationship) ==
    LET slf == self_fields(req, k, relationship)
    IN  IF req.method = "POST" /\ "extend" \in k.query_params
        THEN IF ~has(k.resp_data, slf.origin_model_pk_name)
                  \/ slf.related_model_pk_name \notin DOMAIN req.data
             THEN Frame(js, req, k.request_param, "KeyError", FALSE)
             ELSE LET r == call_join_record(js,
                               [relationship |-> relationship,
                                origin_model_pk |-> get(k.resp_data, slf.origin_model_pk_name),
                                related_model_pk |-> req.data[slf.related_model_pk_name],
                                pk_dict |-> NoDict])
                  IN  Frame(r.js, req, k.request_param, r.raised, FALSE)
        ELSE IF req.method = "POST" /\ "join" \in k.query_params
        THEN prepare_create_request(js, req, k, slf, relationship)
        ELSE IF req.method \in {"PUT", "PATCH"} /\ "join" \in k.query_params
        THEN prepare_update_request(js, req, k, slf, relationship)
        ELSE Frame(js, req, k.request_param, "", TRUE)

\* perform_request's test: the relation request is made
performs(req, k) ==
    req.method \in {"POST", "PUT", "PATCH"} /\ "join" \in k.query_params

\* perform_request that joins the created object to itself
perform_request_join_self(js, req, k, relationship, cont) ==
    LET rp == k.request_param[relationship]
    IN  IF req.method = "POST" /\ "join" \in k.query_params
        THEN IF rp.related_model_pk_name \notin DOMAIN cont
                  \/ ~has(k.resp_data, rp.origin_model_pk_name)
             THEN [js |-> js, raised |-> "KeyError"]
             ELSE call_join_record(js,
                      [relationship |-> relationship,
                       origin_model_pk |-> cont[rp.related_model_pk_name],
                       related_model_pk |-> cont[rp.related_model_pk_name],
                       pk_dict |-> NoDict])
        ELSE [js |-> js, raised |-> ""]

\* perform_request after the backend answered: the join record of a POST
perform_request_join(js, req, k, relationship, cont) ==
    LET rp == k.request_param[relationship]
    IN  IF req.method = "POST" /\ "join" \in k.query_params
        THEN IF rp.related_model_pk_name \notin DOMAIN cont
                  \/ ~has(k.resp_data, rp.origin_model_pk_name)
             THEN [js |-> js, raised |-> "KeyError"]
             ELSE call_join_record(js,
                      [relationship |-> relationship,
                       origin_model_pk |-> get(k.resp_data, rp.origin_model_pk_name),
                       related_model_pk |-> cont[rp.related_model_pk_name],
                       pk_dict |-> NoDict])
        ELSE [js |-> js, raised |-> ""]

\* the values of resp_data that are lists, and their elements
Lists == [v \in {"[u2,u3]", "[u1,u4]"} |->
             IF v = "[u2,u3]" THEN <<"u2", "u3">> ELSE <<"u1", "u4">>]

\* type(v) == type([])
is_list(v) == v \in DOMAIN Lists

\* the calls of validate_join of a for loop, one after the other until one raises
RECURSIVE validate_each(_, _)
validate_each(js, kwargs_list) ==
    IF kwargs_list = <<>>
    THEN [js |-> js, raised |-> ""]
    ELSE LET r == call_validate_join(js, Head(kwargs_list))
         IN  IF r.raised # "" THEN r ELSE validate_each(r.js, Tail(kwargs_list))

\* validate_relationship_data, for a relationship without sub-objects
validate_relationship_data(js, k, relationship) ==
    LET rp == k.request_param[relationship]
        fk_field_name == rp.fk_field_name
        related_model_pk_name == rp.related_model_pk_name
        related_lookup_field_uuid == get(k.resp_data, fk_field_name)
        resp_data_keys == Tail(keys(k.resp_data))
        origin_lookup_field_uuid ==
            IF ~rp.is_forward_lookup
            THEN IF related_model_pk_name = fk_field_name
                 THEN IF \E i \in DOMAIN resp_data_keys : resp_data_keys[i] = fk_field_name
                      THEN get(k.resp_data, rp.related_model_pk_name)
                      ELSE get(k.resp_data, rp.origin_model_pk_name)
                 ELSE get(k.resp_data, rp.related_model_pk_name)
            ELSE get(k.resp_data, rp.origin_model_pk_name)
    IN  IF related_lookup_field_uuid # None /\ origin_lookup_field_uuid # None
        THEN IF is_list(related_lookup_field_uuid)
             THEN validate_each(js,
                      [i \in DOMAIN Lists[related_lookup_field_uuid] |->
                          [origin_model_pk |-> origin_lookup_field_uuid,
                           related_model_pk |-> Lists[related_lookup_field_uuid][i],
                           relationship |-> relationship]])
             ELSE IF is_list(origin_lookup_field_uuid)
             THEN validate_each(js,
                      [i \in DOMAIN Lists[origin_lookup_field_uuid] |->
                          [origin_model_pk |-> Lists[origin_lookup_field_uuid][i],
                           related_model_pk |-> related_lookup_field_uuid,
                           relationship |-> relationship]])
             ELSE call_validate_join(js,
                      [origin_model_pk |-> origin_lookup_field_uuid,
                       related_model_pk |-> related_lookup_field_uuid,
                       relationship |-> relationship])
        ELSE [js |-> js, raised |-> ""]

-----------------------------------------------------------------------------
(* Spec: one inbound request after the other goes through the orchestrator  *)

Methods == {"POST", "PUT", "PATCH"}
Modes == {{"join"}, {"extend"}}

\* request_param[TeamKey]: product -> product team, or, for a reverse
\* lookup, product team -> product with the product as the primary
TeamParam(forward, fk_field_name, method) ==
    [service               |-> "product",
     origin_model_pk_name  |-> IF forward THEN "product_uuid" ELSE "product_team_uuid",
     related_model_pk_name |-> IF forward THEN "product_team_uuid" ELSE "product_uuid",
     fk_field_name         |-> fk_field_name,
     is_forward_lookup     |-> forward,
     method                |-> method,
     pk                    |-> None]

\* request_param[ToolKey]: product -> product tool
ToolParam(method) ==
    [service               |-> "product",
     origin_model_pk_name  |-> "product_uuid",
     related_model_pk_name |-> "product_tool_uuid",
     fk_field_name         |-> "product_tool",
     is_forward_lookup     |-> TRUE,
     method                |-> method,
     pk                    |-> None]

RequestParam(forward, fk_field_name, method) ==
    [x \in {TeamKey, ToolKey} |->
        IF x = TeamKey THEN TeamParam(forward, fk_field_name, method) ELSE ToolParam(method)]

\* the sub-objects a client lists under TeamKey: a new team, a new team
\* with the foreign key field, a team with its PK, a team with its PK that
\* replaces the team previous_pk
NewTeam == [team_name |-> "T"]
NewTeamFk == [team_name |-> "T", product_team |-> "u2"]
TeamU3 == [product_team_uuid |-> "u3"]
TeamU3ForU2 == [product_team_uuid |-> "u3", previous_pk |-> "u2", join |-> "true"]

TeamSubs == {NewTeam, NewTeamFk, TeamU3, TeamU3ForU2}

\* a sub-object with previous_pk and no join key
TeamU3Previous == [product_team_uuid |-> "u3", previous_pk |-> "u2"]

TeamLists == UNION {[1..n -> TeamSubs] : n \in 0..MaxSubs} \cup {<<TeamU3Previous>>}

ToolLists == {<<>>, <<[product_tool_uuid |-> "u2"]>>}

\* the bodies: the relationship lists, or the two PKs of an extend request
\* at the top level
FlatBody == [product_uuid |-> "u1", product_tool_uuid |-> "u2"]

Bodies ==
    {FlatBody}
    \cup {[x \in {TeamKey} |-> l] : l \in TeamLists}
    \cup {[x \in {TeamKey, ToolKey} |-> IF x = TeamKey THEN l ELSE t] :
              l \in {m \in TeamLists : Len(m) <= 1}, t \in ToolLists \ {<<>>}}

\* the primary's response: its PK, and maybe its foreign key to a team
RespDatas ==
    {<<[k |-> "product_uuid", v |-> "u1"]>>,
     <<[k |-> "product_uuid", v |-> "u1"], [k |-> "product_team", v |-> "u2"]>>}

\* the primary's response with a list of PKs: of the teams in its foreign key
\* field, or in its own PK field
ListRespDatas ==
    {<<[k |-> "product_uuid", v |-> "u1"], [k |-> "product_team", v |-> "[u2,u3]"]>>,
     <<[k |-> "product_uuid", v |-> "[u1,u4]"], [k |-> "product_team", v |-> "u2"]>>}

\* the responses a body comes with: one with a list of PKs only when the body
\* is of empty relationship lists
RespDatasFor(body) ==
    IF \A x \in DOMAIN body : x \in {TeamKey, ToolKey} /\ body[x] = <<>>
    THEN RespDatas \cup ListRespDatas
    ELSE RespDatas

\* the PKs the backend gives the objects it creates, in this order
NewPKs == <<"u4", "43", "u5", "44">>

\* the PKs the JoinRecord table and the backend's answers so far refer to
UsedPKs(js, cs) ==
    UNION {{row[f] : f \in PkFields} : row \in Rows(js)}
    \cup {cs[i].returned : i \in DOMAIN cs}

\* the PK of the next object the backend creates; None when it has no more
NewPK(js, cs) ==
    IF \E i \in DOMAIN NewPKs : NewPKs[i] \notin UsedPKs(js, cs)
    THEN NewPKs[CHOOSE i \in DOMAIN NewPKs :
                    /\ NewPKs[i] \notin UsedPKs(js, cs)
                    /\ \A j \in 1..(i - 1) : NewPKs[j] \in UsedPKs(js, cs)]
    ELSE None

\* the JoinRecord table an inbound request finds
InitialStores ==
    {EmptyBag,
     SetToBag({Row(TeamKey, validate_primary_key("u1", "u2"), None)}),
     SetToBag({Row(TeamKey, validate_primary_key("u1", "u2"), None),
               Row(ToolKey, validate_primary_key("u1", "u2"), None)})}

\* body.get(relationship): the list under the key; no list when it is missing
GetList(body, relationship) ==
    IF relationship \in DOMAIN body THEN body[relationship] ELSE <<>>

\* the field of a relationship's sub-objects that holds their own PK
SubPkName(rp) ==
    IF rp.is_forward_lookup THEN rp.related_model_pk_name ELSE rp.origin_model_pk_name

\* the position after the current instance: the next instance of the list,
\* or the next relationship
\* the position after the current instance when the list was lost with the
\* request's data: the next relationship
Advance_list_lost(l) == [l EXCEPT !.ri = l.ri + 1, !.ii = 0]

Advance(l) ==
    IF l.ii < Len(l.items[l.ri].data)
    THEN l
    ELSE [l EXCEPT !.ri = l.ri + 1, !.ii = 0]

Init ==
    /\ store \in InitialStores
    /\ registry = {TeamKey, ToolKey}
    /\ uniqueRows \in BOOLEAN
    /\ last = NoCall
    /\ TasksIdle
    /\ NoRequest
    /\ HelpersIdle

\* retrieve_relationship_data up to its loop over the relationships
Start(method, query_params, request_param, body, resp_data) ==
    /\ request' = [method |-> method, data |-> body,
                   session |-> [jwt_organization_uuid |-> "org1"]]
    /\ kw' = [request_method |-> method, query_params |-> query_params,
              resp_data |-> resp_data, request_param |-> request_param,
              datamesh_relationship |-> <<TeamKey, ToolKey>>]
    /\ self' = <<>>
    /\ loop' = [items |-> [i \in 1..2 |->
                              [relationship |-> <<TeamKey, ToolKey>>[i],
                               data |-> GetList(body, <<TeamKey, ToolKey>>[i])]],
                ri |-> 1, ii |-> 0]
    /\ content' = <<>>
    /\ calls' = <<>>
    /\ raised' = ""
    /\ sent' = [method |-> method, query_params |-> query_params,
                request_param |-> request_param, body |-> body,
                resp_data |-> resp_data, store |-> store]
    /\ nreq' = nreq + 1
    /\ pc' = "next"
    /\ UNCHANGED <<helperVars, storeVars, taskVars>>

\* the gateway hands a request, and the primary's response, to the handler
NewRequest ==
    /\ pc = "idle"
    /\ \E method \in Methods, query_params \in Modes, forward \in BOOLEAN,
          fk_field_name \in {None, "product_team"}, body \in Bodies :
       \E resp_data \in RespDatasFor(body) :
          Start(method, query_params, RequestParam(forward, fk_field_name, method),
                body, resp_data)

\* the client sends the request it sent before
Reissue ==
    /\ pc \in {"done", "error"}
    /\ nreq < MaxRequests
    /\ Start(sent.method, sent.query_params, sent.request_param, sent.body,
             sent.resp_data)

Current == loop.items[loop.ri]

\* a relationship without data: validate_relationship_data, then the next
EmptyRelationship ==
    /\ pc = "next"
    /\ loop.ri <= Len(loop.items)
    /\ Current.data = <<>>
    /\ LET r == validate_relationship_data(store, kw, Current.relationship)
       IN  /\ store' = r.js
           /\ raised' = r.raised
           /\ pc' = IF r.raised = "" THEN "next" ELSE "error"
           /\ loop' = IF r.raised = "" THEN [loop EXCEPT !.ri = loop.ri + 1, !.ii = 0]
                      ELSE loop
    /\ UNCHANGED <<helperVars, registry, uniqueRows, last, taskVars,
                   request, kw, self, content, calls, sent, nreq>>

\* the loop over the relationship's data: the request takes the original
\* method, its data is cleared and updated with the instance
TakeInstance ==
    /\ pc = "next"
    /\ loop.ri <= Len(loop.items)
    /\ loop.ii < Len(Current.data)
    /\ loop' = [loop EXCEPT !.ii = loop.ii + 1]
    /\ request' = [request EXCEPT !.method = kw.request_method,
                                  !.data = Current.data[loop.ii + 1]]
    /\ pc' = "validate"
    /\ UNCHANGED <<helperVars, storeVars, taskVars, kw, self, content, calls, raised, sent, nreq>>

\* validate_request, up to perform_request
ValidateRequest ==
    /\ pc = "validate"
    /\ LET r == validate_request(store, request, kw, Current.relationship)
       IN  /\ self' = self_fields(request, kw, Current.relationship)
           /\ store' = r.js
           /\ request' = r.request
           /\ kw' = [kw EXCEPT !.request_param = r.request_param]
           /\ raised' = r.raised
           /\ pc' = IF r.raised # "" THEN "error"
                    ELSE IF r.ret THEN "perform" ELSE "next"
           /\ loop' = IF r.raised = "" /\ ~r.ret THEN Advance(loop) ELSE loop
    /\ UNCHANGED <<helperVars, registry, uniqueRows, last, taskVars, content, calls, sent, nreq>>

\* perform_request up to the client it makes from the service's spec
FetchSpec ==
    /\ pc = "perform"
    /\ pc' = IF performs(request, kw) THEN "call" ELSE "next"
    /\ loop' = IF performs(request, kw) THEN loop ELSE Advance(loop)
    /\ UNCHANGED <<helperVars, storeVars, taskVars, request, kw, self, content, calls, raised, sent, nreq>>

\* client.request(**request_param[relationship]): the backend answers with
\* the object of the PK the call names or, when it names none, with a new
\* object, or it answers with an error
BackendCall(ok) ==
    /\ pc = "call"
    /\ LET rp == kw.request_param[Current.relationship]
           newpk == IF rp.pk # None THEN rp.pk ELSE NewPK(store, calls)
           answers == ok /\ newpk # None
       IN  /\ calls' = Append(calls,
                          [relationship |-> Current.relationship,
                           ri |-> loop.ri, ii |-> loop.ii,
                           method |-> rp.method, pk |-> rp.pk,
                           request_method |-> request.method,
                           data |-> request.data,
                           status |-> IF answers THEN 200 ELSE 500,
                           returned |-> IF answers THEN newpk ELSE None])
           /\ content' = IF answers
                         THEN [status_code |-> 200,
                               content |-> Put(request.data, SubPkName(rp), newpk)]
                         ELSE [status_code |-> 500, content |-> [detail |-> "error"]]
    /\ pc' = "called"
    /\ UNCHANGED <<helperVars, storeVars, taskVars, request, kw, self, loop, raised, sent, nreq>>

\* perform_request after the call: the join record of a POST
JoinWrite ==
    /\ pc = "called"
    /\ LET r == perform_request_join(store, request, kw, Current.relationship, content.content)
       IN  /\ store' = r.js
           /\ raised' = r.raised
           /\ pc' = IF r.raised = "" THEN "next" ELSE "error"
           /\ loop' = IF r.raised = "" THEN Advance(loop) ELSE loop
    /\ UNCHANGED <<helperVars, registry, uniqueRows, last, taskVars,
                   request, kw, self, content, calls, sent, nreq>>

\* retrieve_relationship_data returns
Finish ==
    /\ pc = "next"
    /\ loop.ri > Len(loop.items)
    /\ pc' = "done"
    /\ UNCHANGED <<helperVars, storeVars, taskVars, request, kw, self, loop, content, calls, raised, sent, nreq>>

Next ==
    \/ NewRequest
    \/ Reissue
    \/ EmptyRelationship
    \/ TakeInstance
    \/ ValidateRequest
    \/ FetchSpec
    \/ \E ok \in BOOLEAN : BackendCall(ok)
    \/ JoinWrite
    \/ Finish

Spec == Init /\ [][Next]_vars

-----------------------------------------------------------------------------
(* The helpers: SafeUserAccessMixin (core/mixins.py) and                    *)
(* prepare_lookup_kwargs (datamesh/utils.py).  A Python object is a record  *)
(* with its type and its attributes; attrs tells which attributes it has.   *)

NoneObject == [type |-> "NoneType"]

\* rest_framework's Response(data, status=...)
Response(data, status) == [type |-> "Response", data |-> data, status_code |-> status]

HTTP_400_BAD_REQUEST == 400
HTTP_401_UNAUTHORIZED == 401

\* Python's truth of an object: None is false, a user, a request, a
\* Response and an organization are true
truth(x) == x.type # "NoneType"

\* hasattr(x, name)
hasattr(x, name) == x.type # "NoneType" /\ name \in x.attrs

get_authenticated_user(slf) ==
    IF ~hasattr(slf, "request") \/ ~truth(slf.request)
    THEN NoneObject
    ELSE IF ~hasattr(slf.request, "user") \/ ~slf.request.user.is_authenticated
    THEN NoneObject
    ELSE slf.request.user

get_user_organization(slf) ==
    LET user == get_authenticated_user(slf)
    IN  IF ~truth(user) THEN NoneObject
        ELSE IF ~hasattr(user, "organization") \/ ~truth(user.organization)
        THEN NoneObject
        ELSE user.organization

require_authenticated_user(slf) ==
    LET user == get_authenticated_user(slf)
    IN  IF ~truth(user)
        THEN Response("Authentication required.", HTTP_401_UNAUTHORIZED)
        ELSE NoneObject

\* require_user_organization that looks at the organization first
require_user_organization_organization_first(slf) ==
    LET organization == get_user_organization(slf)
        auth_error == require_authenticated_user(slf)
    IN  IF ~truth(organization)
        THEN Response("User must belong to an organization.", HTTP_400_BAD_REQUEST)
        ELSE IF truth(auth_error) THEN auth_error
        ELSE NoneObject

require_user_organization(slf) ==
    LET auth_error == require_authenticated_user(slf)
        organization == get_user_organization(slf)
    IN  IF truth(auth_error) THEN auth_error
        ELSE IF ~truth(organization)
        THEN Response("User must belong to an organization.", HTTP_400_BAD_REQUEST)
        ELSE NoneObject

\* the organizations a user belongs to
Organizations == {[type |-> "Organization", name |-> n] : n \in {"org1", "org2"}}

\* request.user: an anonymous or an authenticated user, with or without the
\* organization attribute, with or without an organization
Users ==
    {[type |-> "User", is_authenticated |-> a, attrs |-> {"is_authenticated"}] :
        a \in BOOLEAN}
    \cup {[type |-> "User", is_authenticated |-> a,
           attrs |-> {"is_authenticated", "organization"}, organization |-> o] :
            a \in BOOLEAN, o \in Organizations \cup {NoneObject}}

Requests ==
    {[type |-> "Request", attrs |-> {}]}
    \cup {[type |-> "Request", attrs |-> {"user"}, user |-> u] : u \in Users}

\* the viewsets: without a request (the API documentation is generated),
\* with request None, with a request
Views ==
    {[type |-> "ViewSet", attrs |-> {}]}
    \cup {[type |-> "ViewSet", attrs |-> {"request"}, request |-> r] :
            r \in Requests \cup {NoneObject}}

\* the Relationship rows the seeders register, with their two models
Relationship(key) ==
    [key |-> key,
     origin_model  |-> IF key = UserKey THEN "ProductTools" ELSE "Product",
     related_model |-> CASE key = TeamKey -> "ProductTeam"
                         [] key = ToolKey -> "ProductTools"
                         [] key = UserKey -> "CoreUser"]

\* prepare_lookup_kwargs that looks at the origin side whatever the direction
prepare_lookup_kwargs_origin_side(is_forward_lookup, relationship, join_record_row) ==
    <<relationship.origin_model,
      IF join_record_row.record_id # None THEN "record_id" ELSE "record_uuid">>

prepare_lookup_kwargs(is_forward_lookup, relationship, join_record_row) ==
    IF is_forward_lookup
    THEN <<relationship.related_model,
           IF join_record_row.related_record_id # None
           THEN "related_record_id" ELSE "related_record_uuid">>
    ELSE <<relationship.origin_model,
           IF join_record_row.record_id # None THEN "record_id" ELSE "record_uuid">>

\* the JoinRecord rows handed to prepare_lookup_kwargs: each PK field null or not
LookupRows ==
    {[relationship |-> k, record_id |-> a, record_uuid |-> b,
      related_record_id |-> c, related_record_uuid |-> d, organization |-> None] :
        k \in {TeamKey, UserKey}, a \in {None, "1"}, b \in {None, "u1"},
        c \in {None, "42"}, d \in {None, "u2"}}

InitHelpers ==
    /\ store = EmptyBag
    /\ registry = {TeamKey}
    /\ uniqueRows = FALSE
    /\ last = NoCall
    /\ TasksIdle
    /\ NoRequest
    /\ models = {}
    /\ view \in Views
    /\ result = <<>>

\* a method of the mixin is called on the viewset
CallMixin(op) ==
    /\ result' = [op |-> op,
                  value |-> CASE op = "get_authenticated_user" -> get_authenticated_user(view)
                              [] op = "get_user_organization" -> get_user_organization(view)
                              [] op = "require_authenticated_user" -> require_authenticated_user(view)
                              [] op = "require_user_organization" -> require_user_organization(view)]
    /\ UNCHANGED <<storeVars, taskVars, reqVars, models, view>>

CallPrepareLookupKwargs(is_forward_lookup, join_record_row) ==
    /\ result' = [op |-> "prepare_lookup_kwargs",
                  is_forward_lookup |-> is_forward_lookup,
                  join_record |-> join_record_row,
                  value |-> prepare_lookup_kwargs(is_forward_lookup,
                                Relationship(join_record_row.relationship),
                                join_record_row)]
    /\ UNCHANGED <<storeVars, taskVars, reqVars, models, view>>

MixinOps == {"get_authenticated_user", "get_user_organization",
             "require_authenticated_user", "require_user_organization"}

NextHelpers ==
    \/ \E op \in MixinOps : CallMixin(op)
    \/ \E is_forward_lookup \in BOOLEAN, join_record_row \in LookupRows :
          CallPrepareLookupKwargs(is_forward_lookup, join_record_row)

SpecHelpers == InitHelpers /\ [][NextHelpers]_vars

-----------------------------------------------------------------------------
(* SpecSeed: the joinrelationships command is run, any number of times, on  *)
(* a table that other callers write to between the runs                     *)

\* the contents of ProductTeam.json: the product tools with their users
ProductTeamFiles ==
    {<<>>,
     <<[pk |-> "u2", users |-> <<"u3">>]>>,
     <<[pk |-> "u2", users |-> <<"u3", "42", "u1">>],
       [pk |-> "u1", users |-> <<>>]>>}

\* the PKs other callers join under the seeders' relationships
SeedPKs == {"u2", "u3"}

\* the state of the three tables
Tables == [store |-> store, registry |-> registry, models |-> models]

InitSeed ==
    /\ store = EmptyBag
    /\ registry = {}
    /\ uniqueRows \in BOOLEAN
    /\ last = NoCall
    /\ TasksIdle
    /\ NoRequest
    /\ models = {}
    /\ view = <<>>
    /\ result = <<>>

\* Command.handle: run_seed.  again tells that the run repeats the one
\* before it: the same files, the tables as that run left them
RunSeed(product_json, product_team_json) ==
    LET r == run_seed(store, models, registry, product_json, product_team_json)
    IN  /\ store' = r.js
        /\ models' = r.models
        /\ registry' = r.registry
        /\ result' = [op |-> "run_seed",
                      product_json |-> product_json,
                      product_team_json |-> product_team_json,
                      raised |-> r.raised,
                      was |-> Tables,
                      mid |-> r.mid,
                      reached |-> r.reached,
                      again |-> /\ result # <<>>
                                /\ result.product_json = product_json
                                /\ result.product_team_json = product_team_json
                                /\ result.after = Tables,
                      after |-> [store |-> r.js, registry |-> r.registry,
                                 models |-> r.models]]
        /\ UNCHANGED <<uniqueRows, last, taskVars, reqVars, view>>

\* another caller writes a join record; the next run no longer repeats
SeedJoinRecord(o, r, k) ==
    /\ LET res == join_record(store, k, o, r, NoDict)
       IN  /\ Fits(res.js)
           /\ store' = res.js
    /\ result' = <<>>
    /\ UNCHANGED <<registry, uniqueRows, last, taskVars, reqVars, models, view>>

NextSeed ==
    \/ \E product_json \in SeedFiles, product_team_json \in ProductTeamFiles :
          RunSeed(product_json, product_team_json)
    \/ \E o \in SeedPKs, r \in SeedPKs, k \in {ToolKey, UserKey} : SeedJoinRecord(o, r, k)

SpecSeed == InitSeed /\ [][NextSeed]_vars

-----------------------------------------------------------------------------
(* Claims about the store *)

LastCount == Count(store, validate_primary_key(last.origin, last.related), last.relationship)

\* C1: two successive validate_join calls with one triple whose relationship
\* key is registered, made when the store holds no record of the triple,
\* leave exactly one JoinRecord of it: the first call inserts it, the second
\* finds it and inserts nothing.
C1_TwoCallsOneRecord ==
    (/\ last.op = "validate_join"
     /\ last.relationship \in registry
     /\ last.before0 = 0)
    => /\ last.raised = ""
       /\ LastCount = 1
       /\ last.streak = 1 => last.inserted = 1
       /\ last.streak = 2 => last.inserted = 0 /\ last.before = 1

C1_Witness ==
    /\ last.op = "validate_join" /\ last.relationship \in registry
    /\ last.streak = 2 /\ last.before0 = 0
    /\ last.inserted = 0 /\ LastCount = 1

\* C2: when NTasks tasks call validate_join with one triple concurrently, the
\* store ends with exactly one JoinRecord of the triple and every caller
\* completes successfully.
C2_ConcurrentOneRecord ==
    (\A t \in Tasks : tpc[t] \in {"done", "failed"})
    => /\ Count(store, validate_primary_key(targ.origin, targ.related), targ.relationship) = 1
       /\ \A t \in Tasks : tpc[t] = "done"

\* C3: every JoinRecord has exactly one of record_id, record_uuid non-null
\* and exactly one of related_record_id, related_record_uuid non-null.
C3_ExactlyOnePerSide ==
    \A row \in Rows(store) :
        /\ (row.record_id = None) # (row.record_uuid = None)
        /\ (row.related_record_id = None) # (row.related_record_uuid = None)

C3_Witness ==
    /\ last.op = "seed"
    /\ \E row \in Rows(store) : row.relationship = ToolKey /\ row.record_uuid # None
    /\ \E row \in Rows(store) : row.record_id # None /\ row.related_record_uuid # None

\* the row a join of (o, r) under key k is to be: each side in its _uuid
\* field when its PK is a UUID, else in its _id field
ExpectedRow(o, r, k) ==
    [relationship        |-> k,
     record_id           |-> IF valid_uuid4(str[o]) THEN None ELSE o,
     record_uuid         |-> IF valid_uuid4(str[o]) THEN o ELSE None,
     related_record_id   |-> IF valid_uuid4(str[r]) THEN None ELSE r,
     related_record_uuid |-> IF valid_uuid4(str[r]) THEN r ELSE None,
     organization        |-> None]

LastExpected == ExpectedRow(last.origin, last.related, last.relationship)

\* C4: the field a PK is stored in and looked up by depends on the kind of
\* that side alone: after a join insertion the store holds the row with the
\* origin PK in record_uuid iff it is a UUID (else record_id) and the related
\* PK in related_record_uuid iff it is a UUID (else related_record_id);
\* validate_join inserts that row only when the store did not hold it, and
\* calling validate_join again with the same pair is a no-op.
C4_FieldsByKind ==
    (last.op \in {"validate_join", "join_record"} /\ last.raised = "")
    => /\ BagIn(LastExpected, store)
       /\ last.inserted = 1 /\ last.op = "validate_join" => CopiesIn(LastExpected, store) = 1
       /\ last.inserted = 0 <=> (last.op = "validate_join" /\ last.before > 0)
       /\ last.streak = 2 => last.inserted = 0

C4_Witness ==
    /\ last.op = "validate_join" /\ last.raised = "" /\ last.streak = 2
    /\ last.origin = "u1" /\ last.related = "1" /\ last.inserted = 0
    /\ \E row \in Rows(store) :
          /\ row.record_uuid = "u1" /\ row.related_record_id = "1"
          /\ row.record_id = None /\ row.related_record_uuid = None

-----------------------------------------------------------------------------
(* Claims about the orchestrator *)

Relationships == {TeamKey, ToolKey}

\* the sub-objects the client listed under a relationship's key
Listed(relationship) == GetList(sent.body, relationship)

Ended == pc \in {"done", "error"}

PostJoin == pc # "idle" /\ sent.method = "POST" /\ "join" \in sent.query_params
PostExtend == pc # "idle" /\ sent.method = "POST" /\ "extend" \in sent.query_params
PutJoin == pc # "idle" /\ sent.method \in {"PUT", "PATCH"} /\ "join" \in sent.query_params

\* the index in datamesh_relationship of a relationship
IndexOf(relationship) == IF relationship = TeamKey THEN 1 ELSE 2

\* the orchestrator is through with sub-object i of the r-th relationship
Completed(r, i) ==
    \/ r < loop.ri
    \/ r = loop.ri /\ (i < loop.ii \/ (i = loop.ii /\ pc = "next"))

\* the orchestrator has taken sub-object i of the r-th relationship
Taken(r, i) == r < loop.ri \/ (r = loop.ri /\ i <= loop.ii)

CallsFor(relationship) == {c \in DOMAIN calls : calls[c].relationship = relationship}
CallsAt(r, i) == {c \in DOMAIN calls : calls[c].ri = r /\ calls[c].ii = i}

\* the primary's PK
PrimaryPK == "u1"

\* the join rows of the first n backend calls, for those whose sub-object
\* the orchestrator is through with
RECURSIVE JoinsOf(_)
JoinsOf(n) ==
    IF n = 0 THEN EmptyBag
    ELSE JoinsOf(n - 1)
         (+) (IF Completed(calls[n].ri, calls[n].ii)
              THEN SetToBag({ExpectedRow(PrimaryPK, calls[n].returned, calls[n].relationship)})
              ELSE EmptyBag)

\* C5: in a POST with join, every backend call is a create (POST, no pk),
\* there is one call per sub-object taken, in list order; once the
\* orchestrator is through with a sub-object, the store has gained one
\* JoinRecord of the relationship's key linking the primary's PK to the PK
\* the backend returned, and nothing else; for a forward lookup the join
\* write that follows a successful call does not fail; when the request is
\* through, k calls were issued for a relationship of k sub-objects and k
\* JoinRecords were added for it.
C5_PostJoinCreatesAndJoins ==
    PostJoin =>
      /\ \A c \in DOMAIN calls :
            /\ calls[c].method = "POST" /\ calls[c].pk = None
            /\ calls[c].request_method = "POST"
            /\ c > 1 => \/ calls[c - 1].ri < calls[c].ri
                        \/ calls[c - 1].ri = calls[c].ri /\ calls[c - 1].ii < calls[c].ii
            /\ Completed(calls[c].ri, calls[c].ii) => calls[c].status = 200
      /\ \A r \in 1..2, i \in 1..MaxSubs :
            /\ Completed(r, i) /\ i <= Len(loop.items[r].data) => Cardinality(CallsAt(r, i)) = 1
            /\ ~Taken(r, i) => CallsAt(r, i) = {}
      /\ store = sent.store (+) JoinsOf(Len(calls))
      /\ (/\ pc = "error" /\ calls # <<>>
          /\ calls[Len(calls)].status = 200
          /\ calls[Len(calls)].ri = loop.ri /\ calls[Len(calls)].ii = loop.ii)
         => ~kw.request_param[calls[Len(calls)].relationship].is_forward_lookup
      /\ pc = "done" =>
            \A relationship \in Relationships :
               /\ Cardinality(CallsFor(relationship)) = Len(Listed(relationship))
               /\ BagCardinality(Restrict(store, {row \in Rows(store) : row.relationship = relationship}))
                  = BagCardinality(Restrict(sent.store, {row \in Rows(sent.store) : row.relationship = relationship}))
                    + Len(Listed(relationship))

C5_Witness ==
    /\ PostJoin /\ pc = "done"
    /\ Listed(TeamKey) = <<NewTeam, NewTeamFk>>
    /\ Cardinality(CallsFor(TeamKey)) = 2
    /\ BagIn(ExpectedRow("u1", "u4", TeamKey), store)
    /\ BagIn(ExpectedRow("u1", "43", TeamKey), store)
    /\ BagCardinality(store) = BagCardinality(sent.store) + 2

\* a JoinRecord of the relationship links a and b, in one direction or the other
Links(js, relationship, a, b) ==
    \/ BagIn(ExpectedRow(a, b, relationship), js)
    \/ BagIn(ExpectedRow(b, a, relationship), js)

\* C6: after a POST with extend whose body carries, next to the primary's
\* PK, the related PK at related_model_pk_name, the JoinRecord
\* (relationship, resp_data[origin_model_pk_name], body[related_model_pk_name])
\* exists and no backend call was issued for the relationship.
C6_ExtendJoinsExisting ==
    (PostExtend /\ Ended) =>
      \A relationship \in Relationships :
         LET rp == sent.request_param[relationship]
         IN  (/\ rp.related_model_pk_name \in DOMAIN sent.body
              /\ has(sent.resp_data, rp.origin_model_pk_name))
             => /\ BagIn(ExpectedRow(get(sent.resp_data, rp.origin_model_pk_name),
                                     sent.body[rp.related_model_pk_name],
                                     relationship), store)
                /\ CallsFor(relationship) = {}

\* the sub-objects a request with extend lists under a relationship's key
\* name different related PKs
DistinctTriples ==
    \A relationship \in Relationships :
       \A i, j \in DOMAIN Listed(relationship) :
          LET name == sent.request_param[relationship].related_model_pk_name
          IN  (i # j /\ name \in DOMAIN Listed(relationship)[i]
                     /\ name \in DOMAIN Listed(relationship)[j])
              => Listed(relationship)[i][name] # Listed(relationship)[j][name]

\* C7: POST with extend is idempotent: however many times the same request
\* (of different triples) was issued, it ends without a failed insertion,
\* and the store holds exactly one JoinRecord of the triple of each
\* sub-object it is through with.
C7_ExtendIdempotent ==
    (PostExtend /\ Ended /\ DistinctTriples) =>
      /\ raised # "IntegrityError"
      /\ \A relationship \in Relationships :
            \A i \in DOMAIN Listed(relationship) :
               LET rp == sent.request_param[relationship]
                   sub == Listed(relationship)[i]
               IN  (/\ Completed(IndexOf(relationship), i)
                    /\ rp.related_model_pk_name \in DOMAIN sub
                    /\ has(sent.resp_data, rp.origin_model_pk_name))
                   => Count(store,
                            validate_primary_key(get(sent.resp_data, rp.origin_model_pk_name),
                                                 sub[rp.related_model_pk_name]),
                            relationship) = 1

\* C8: after a PUT/PATCH with join has taken the sub-object that carries its
\* own PK u3 and previous_pk u2, no JoinRecord of the relationship links u1
\* and u2, and one links u1 and u3.
C8_RelinkReplacesJoin ==
    (PutJoin /\ Ended) =>
      \A i \in DOMAIN Listed(TeamKey) :
         (Listed(TeamKey)[i] = TeamU3ForU2 /\ Taken(1, i))
         => /\ ~Links(store, TeamKey, "u1", "u2")
            /\ Links(store, TeamKey, "u1", "u3")

\* the field of the sub-objects of the r-th relationship that holds their PK
PkNameAt(r) == SubPkName(sent.request_param[loop.items[r].relationship])

\* sub-object i of the r-th relationship carries its own PK and previous_pk
Replaces(r, i) ==
    /\ PkNameAt(r) \in DOMAIN loop.items[r].data[i]
    /\ "previous_pk" \in DOMAIN loop.items[r].data[i]

\* sub-object i of the r-th relationship carries its own PK and no previous_pk
Updates(r, i) ==
    /\ PkNameAt(r) \in DOMAIN loop.items[r].data[i]
    /\ "previous_pk" \notin DOMAIN loop.items[r].data[i]

C10_Calls ==
    PutJoin =>
      \A r \in 1..2 : \A i \in DOMAIN loop.items[r].data :
         Updates(r, i) =>
            /\ Cardinality(CallsAt(r, i)) <= 1
            /\ Completed(r, i) => Cardinality(CallsAt(r, i)) = 1
            /\ ~Taken(r, i) => CallsAt(r, i) = {}
            /\ \A c \in CallsAt(r, i) :
                  /\ calls[c].method = sent.method
                  /\ calls[c].request_method = sent.method
                  /\ calls[c].pk = loop.items[r].data[i][PkNameAt(r)]

C10_Frame ==
    (/\ PutJoin
     /\ pc \in {"validate", "perform", "call", "called"}
     /\ Updates(loop.ri, loop.ii))
    => store' = store

\* C10: in a PUT/PATCH with join, for a sub-object that carries its own PK
\* and no previous_pk exactly one backend call is issued, with the inbound
\* method and the sub-object's PK as pk, and no step the orchestrator takes
\* for the sub-object changes the JoinRecord store.
C10_UpdateByPk == [](C10_Calls) /\ [][C10_Frame]_vars

C10_Witness ==
    /\ PutJoin /\ pc = "done"
    /\ sent.method = "PATCH"
    /\ Listed(TeamKey) = <<NewTeam, TeamU3>>
    /\ Cardinality(CallsAt(1, 2)) = 1
    /\ \A c \in CallsAt(1, 2) :
          calls[c].method = "PATCH" /\ calls[c].pk = "u3" /\ calls[c].status = 200
    /\ store # sent.store

\* sub-object i of the r-th relationship carries no PK
Creates(r, i) == PkNameAt(r) \notin DOMAIN loop.items[r].data[i]

\* C11: in a PUT/PATCH with join, the backend call for a sub-object that
\* carries no PK is issued as a POST with no pk, there is one such call once
\* the orchestrator is through with the sub-object, and the store then holds
\* a JoinRecord linking the primary's PK to the PK the backend returned.
C11_CreateAndJoin ==
    PutJoin =>
      \A r \in 1..2 : \A i \in DOMAIN loop.items[r].data :
         Creates(r, i) =>
            /\ \A c \in CallsAt(r, i) : calls[c].method = "POST" /\ calls[c].pk = None
            /\ Completed(r, i) =>
                  /\ Cardinality(CallsAt(r, i)) = 1
                  /\ \A c \in CallsAt(r, i) :
                        BagIn(ExpectedRow(PrimaryPK, calls[c].returned,
                                          loop.items[r].relationship), store)

\* the backend call c is of a forward-lookup relationship with a configured
\* fk_field_name
ForwardWithFk(c) ==
    /\ sent.request_param[calls[c].relationship].is_forward_lookup
    /\ sent.request_param[calls[c].relationship].fk_field_name # None

\* the sub-object, as the client sent it, that backend call c is for
SubOf(c) == loop.items[calls[c].ri].data[calls[c].ii]

\* C12, as the specification states it: in a POST with join on a
\* forward-lookup relationship with a configured fk_field_name, every
\* sub-object sent to the backend carries the primary's PK in field
\* fk_field_name, whether or not the client's payload had the field.
C12_EveryCallCarriesFk ==
    PostJoin =>
      \A c \in DOMAIN calls :
         LET rp == sent.request_param[calls[c].relationship]
         IN  ForwardWithFk(c) =>
                /\ rp.fk_field_name \in DOMAIN calls[c].data
                /\ calls[c].data[rp.fk_field_name]
                   = get(sent.resp_data, rp.origin_model_pk_name)

\* C12: in a POST with join on a forward-lookup relationship with a
\* configured fk_field_name, a sub-object whose payload has the field
\* fk_field_name is sent to the backend with the primary's PK in that field
\* and otherwise as the client sent it; a sub-object whose payload does not
\* have the field is sent unchanged, without the field.
C12_FkOverwrittenWhenPresent ==
    PostJoin =>
      \A c \in DOMAIN calls :
         LET rp == sent.request_param[calls[c].relationship]
         IN  ForwardWithFk(c) =>
                IF rp.fk_field_name \in DOMAIN SubOf(c)
                THEN calls[c].data
                     = Put(SubOf(c), rp.fk_field_name,
                           get(sent.resp_data, rp.origin_model_pk_name))
                ELSE calls[c].data = SubOf(c)

C12_Witness ==
    /\ PostJoin /\ pc = "done"
    /\ sent.request_param[TeamKey].is_forward_lookup
    /\ sent.request_param[TeamKey].fk_field_name = "product_team"
    /\ Listed(TeamKey) = <<NewTeam, NewTeamFk>>
    /\ Len(calls) = 2
    /\ calls[1].data = NewTeam
    /\ calls[2].data = [team_name |-> "T", product_team |-> "u1"]

\* validate_relationship_data has been called for the r-th relationship
Validated(r) ==
    /\ r \in DOMAIN loop.items
    /\ loop.items[r].data = <<>>
    /\ r < loop.ri \/ (r = loop.ri /\ pc = "error")

\* the primary's PK that validate_relationship_data reads for a relationship
OriginValue(relationship) ==
    IF sent.request_param[relationship].is_forward_lookup
    THEN get(sent.resp_data, sent.request_param[relationship].origin_model_pk_name)
    ELSE get(sent.resp_data, sent.request_param[relationship].related_model_pk_name)

\* the value of the relationship's fk_field_name in the primary's response
FkValue(relationship) ==
    get(sent.resp_data, sent.request_param[relationship].fk_field_name)

\* the JoinRecords of a relationship
Of(js, relationship) ==
    Restrict(js, {row \in Rows(js) : row.relationship = relationship})

\* C13: once the orchestrator has handled a relationship whose body value is
\* an empty list or missing, then, when the primary's response holds the
\* origin PK and a value in the relationship's fk_field_name (both scalar),
\* the store holds exactly one JoinRecord of the relationship linking the
\* two, and, when either value is missing, the JoinRecords of the
\* relationship are those the request found.
C13_EmptyListPolicy ==
    pc # "idle" =>
      \A r \in 1..2 :
         LET relationship == loop.items[r].relationship
             o == OriginValue(relationship)
             f == FkValue(relationship)
         IN  Validated(r) =>
                IF o # None /\ f # None
                THEN (~is_list(o) /\ ~is_list(f)) =>
                        Count(store, validate_primary_key(o, f), relationship)
                        + Count(store, validate_primary_key(f, o), relationship) = 1
                ELSE Of(store, relationship) = Of(sent.store, relationship)

\* the store holds exactly one JoinRecord of the relationship linking a and b
LinkedOnce(js, relationship, a, b) ==
    Count(js, validate_primary_key(a, b), relationship)
    + Count(js, validate_primary_key(b, a), relationship) = 1

\* C15: once the orchestrator has handled a relationship without sub-objects
\* for which one of the two PK values in the primary's response is a list and
\* the other a scalar, the store holds, for every element of the list, exactly
\* one JoinRecord of the relationship linking the scalar and the element, and
\* the relationship has gained no other JoinRecord.
C15_OneJoinPerElement ==
    pc # "idle" =>
      \A r \in 1..2 :
         LET relationship == loop.items[r].relationship
             o == OriginValue(relationship)
             f == FkValue(relationship)
             pairs == IF is_list(f)
                      THEN {<<o, Lists[f][i]>> : i \in DOMAIN Lists[f]}
                      ELSE {<<Lists[o][i], f>> : i \in DOMAIN Lists[o]}
         IN  (/\ Validated(r)
              /\ o # None /\ f # None
              /\ is_list(o) # is_list(f))
             => /\ \A p \in pairs : LinkedOnce(store, relationship, p[1], p[2])
                /\ \A row \in Rows(Of(store, relationship)) :
                      \/ BagIn(row, sent.store)
                      \/ \E p \in pairs :
                            row \in {ExpectedRow(p[1], p[2], relationship),
                                     ExpectedRow(p[2], p[1], relationship)}

\* the join write that follows backend call c has been attempted
WriteAttempted(c) ==
    calls[c].ri # loop.ri \/ calls[c].ii # loop.ii \/ pc # "called"

\* C14: for a relationship with is_forward_lookup = false the orchestrator
\* writes its JoinRecords with the primary's PK on the related side and the
\* other record's PK on the origin side: after the join write of a POST with
\* join for the object the backend created, after a PUT/PATCH sub-object
\* with previous_pk, and under the empty-array policy; and no JoinRecord the
\* relationship gains has another PK on the related side.
C14_ReverseSwaps ==
    pc # "idle" =>
      \A r \in 1..2 :
         LET relationship == loop.items[r].relationship
             o == OriginValue(relationship)
             f == FkValue(relationship)
         IN  ~sent.request_param[relationship].is_forward_lookup =>
                /\ PostJoin =>
                      \A c \in DOMAIN calls :
                         (calls[c].ri = r /\ calls[c].status = 200 /\ WriteAttempted(c))
                         => BagIn(ExpectedRow(calls[c].returned, PrimaryPK, relationship),
                                  store)
                /\ PutJoin =>
                      \A i \in DOMAIN loop.items[r].data :
                         (/\ Replaces(r, i) /\ Taken(r, i)
                          /\ ~(r = loop.ri /\ i = loop.ii /\ pc = "validate"))
                         => BagIn(ExpectedRow(loop.items[r].data[i][PkNameAt(r)],
                                              PrimaryPK, relationship), store)
                /\ (Validated(r) /\ o # None /\ f # None /\ ~is_list(o) /\ ~is_list(f))
                   => BagIn(ExpectedRow(f, o, relationship), store)
                /\ \A row \in Rows(Of(store, relationship)) :
                      BagIn(row, sent.store) \/ row.related_record_uuid = PrimaryPK

-----------------------------------------------------------------------------
(* Claims about delete_join_record and about the registry *)

\* the PK on the origin side of a row, and the one on its related side
OriginOf(row) == IF row.record_id # None THEN row.record_id ELSE row.record_uuid
RelatedOf(row) ==
    IF row.related_record_id # None THEN row.related_record_id ELSE row.related_record_uuid

References(row, pk) == \E f \in PkFields : row[f] = pk

\* the last call was delete_join_record(pk) without previous_pk
DeletedTouching ==
    last.op = "delete_join_record" /\ last.related = None /\ last.raised = ""

\* the last call was delete_join_record(pk, previous_pk)
DeletedMatching ==
    last.op = "delete_join_record" /\ last.related # None /\ last.raised = ""

\* C16: after delete_join_record(pk) with previous_pk absent no JoinRecord,
\* of whatever relationship, references pk in any of its four PK fields: every
\* row that did is removed, and the call adds no row.
C16_DeleteTouching ==
    DeletedTouching =>
      /\ \A row \in Rows(store) : ~References(row, last.origin)
      /\ \A row \in Rows(last.was) : References(row, last.origin) => ~BagIn(row, store)
      /\ \A row \in Rows(store) : CopiesIn(row, store) <= CopiesIn(row, last.was)

C16_Witness ==
    /\ DeletedTouching /\ last.origin = "u1"
    /\ \E row \in Rows(last.was) : row.relationship = TeamKey /\ row.record_uuid = "u1"
    /\ \E row \in Rows(last.was) : row.relationship = ToolKey /\ row.related_record_uuid = "u1"
    /\ store = EmptyBag

\* row links a and b, in one direction or the other
LinksPair(row, a, b) ==
    \/ OriginOf(row) = a /\ RelatedOf(row) = b
    \/ OriginOf(row) = b /\ RelatedOf(row) = a

\* C17: delete_join_record(pk, previous_pk) with both present removes the
\* JoinRecords that link the two PKs, in either direction and whatever the
\* kinds of the two PKs, and leaves every other JoinRecord as it was.
C17_DeleteMatching ==
    DeletedMatching =>
      /\ \A row \in Rows(last.was) :
            IF LinksPair(row, last.origin, last.related)
            THEN ~BagIn(row, store)
            ELSE CopiesIn(row, store) = CopiesIn(row, last.was)
      /\ \A row \in Rows(store) : BagIn(row, last.was)

C17_Witness ==
    /\ DeletedMatching /\ last.origin = "u1" /\ last.related = "1"
    /\ \E row \in Rows(last.was) : row.record_id = "1" /\ row.related_record_uuid = "u1"
    /\ \E row \in Rows(last.was) : row.record_uuid = "u1" /\ row.related_record_uuid = "u2"
    /\ BagCardinality(last.was) = 2
    /\ BagCardinality(store) = 1

-----------------------------------------------------------------------------
(* Claims about failures and about the order of the steps *)

\* the backend calls of a relationship that the backend answered with an object
Answered(relationship) == {c \in CallsFor(relationship) : calls[c].status < 400}

\* C18: when the backend answers a sub-request of a relationship with a
\* 4xx/5xx status, no exception ends the request, no further sub-request is
\* issued for that relationship, the relationship gains no JoinRecord for the
\* failed sub-request, and the request goes on to the sibling relationships
\* and ends normally.
C18_FailureIsolation ==
    pc # "idle" =>
      \A c \in DOMAIN calls :
         (calls[c].status >= 400 /\ WriteAttempted(c)) =>
            /\ raised = "" /\ pc # "error"
            /\ \A d \in DOMAIN calls :
                  d > c => calls[d].relationship # calls[c].relationship
            /\ BagCardinality(Of(store, calls[c].relationship))
               <= BagCardinality(Of(sent.store, calls[c].relationship))
                  + Cardinality(Answered(calls[c].relationship))

\* the steps of one sub-object: prepare, spec fetch, backend call, join write
SubSteps == {"validate", "perform", "call", "called"}

\* the store gains a JoinRecord in the step
Gains == \E row \in BagToSet(store') : CopiesIn(row, store') > CopiesIn(row, store)

\* one step of the orchestrator keeps the order of the steps
C20_Step ==
    /\ pc = "validate" => pc' \in {"validate", "perform", "next", "error"}
    /\ pc = "perform"  => pc' \in {"perform", "call", "next"}
    /\ pc = "call"     => pc' \in {"call", "called"}
    /\ pc = "called"   => pc' \in {"called", "next", "error"}
    /\ (pc' = "validate" /\ pc # "validate") => pc = "next" /\ loop'.ii = loop.ii + 1
    /\ (pc' = "perform" /\ pc # "perform") => pc = "validate"
    /\ (pc' = "call" /\ pc # "call") => pc = "perform"
    /\ (pc' = "called" /\ pc # "called") =>
          /\ pc = "call" /\ calls' # calls
          /\ calls'[Len(calls')].ri = loop.ri /\ calls'[Len(calls')].ii = loop.ii
    /\ pc \in SubSteps => loop'.ri >= loop.ri /\ (loop'.ri = loop.ri => loop'.ii = loop.ii)
    /\ (pc \in SubSteps /\ "join" \in kw.query_params /\ Gains) =>
          /\ pc = "called"
          /\ calls # <<>>
          /\ calls[Len(calls)].ri = loop.ri /\ calls[Len(calls)].ii = loop.ii
          /\ Cardinality(CallsAt(loop.ri, loop.ii)) = 1

\* C20: within one request the steps of a sub-object follow one another as
\* prepare, spec fetch, backend call, join write, each entered only from the
\* one before it; a JoinRecord of a sub-object that gets a backend call is
\* written only in the step after that call has returned; and the next
\* sub-object is taken only when the steps of the current one are over.
C20_StepsOrdered == [][C20_Step]_vars

\* two sub-objects of a POST with join have gone through their steps, each
\* with its backend call and its join write
C20_Witness ==
    /\ PostJoin /\ pc = "next"
    /\ loop.ri = 2 /\ loop.ii = 0
    /\ Len(calls) = 2
    /\ calls[1].ii = 1 /\ calls[2].ii = 2
    /\ BagCardinality(store) = BagCardinality(sent.store) + 2

-----------------------------------------------------------------------------
(* Claims about the helpers *)

\* the viewset's request carries an authenticated user
Authenticated ==
    /\ hasattr(view, "request") /\ truth(view.request)
    /\ hasattr(view.request, "user") /\ view.request.user.is_authenticated

\* and that user has an organization
InOrganization ==
    /\ Authenticated
    /\ hasattr(view.request.user, "organization")
    /\ truth(view.request.user.organization)

StatusOf(x) == IF x.type = "Response" THEN x.status_code ELSE 0

\* C21: require_user_organization returns a 401 response exactly when the
\* viewset has no request, the request no user, or the user is not
\* authenticated; a 400 response exactly when the user is authenticated and
\* has no organization; None exactly when the user is authenticated and has
\* one.  An unauthenticated user gets 401 whatever its organization.
C21_RequireUserOrganization ==
    (result # <<>> /\ result.op = "require_user_organization") =>
        /\ StatusOf(result.value) = 401 <=> ~Authenticated
        /\ StatusOf(result.value) = 400 <=> (Authenticated /\ ~InOrganization)
        /\ result.value = NoneObject <=> InOrganization

\* an unauthenticated user without an organization is answered 401
C21_Witness ==
    /\ result # <<>> /\ result.op = "require_user_organization"
    /\ hasattr(view, "request") /\ hasattr(view.request, "user")
    /\ ~view.request.user.is_authenticated
    /\ hasattr(view.request.user, "organization")
    /\ ~truth(view.request.user.organization)
    /\ StatusOf(result.value) = 401

\* a JoinRecord with exactly one PK field populated on each side
ExactlyOnePopulated(row) ==
    /\ (row.record_id = None) # (row.record_uuid = None)
    /\ (row.related_record_id = None) # (row.related_record_uuid = None)

\* C30: prepare_lookup_kwargs returns the far side of the join: forward, the
\* relationship's related_model with related_record_id when that field of
\* the join record is not null and else related_record_uuid; reverse, the
\* origin_model with record_id when not null and else record_uuid.  For a
\* join record with exactly one PK field populated on each side the field
\* returned is the populated one of that side.
C30_LookupFarSide ==
    (result # <<>> /\ result.op = "prepare_lookup_kwargs") =>
        LET row == result.join_record
            relationship == Relationship(row.relationship)
            related_model == result.value[1]
            related_record_field == result.value[2]
        IN  /\ result.is_forward_lookup =>
                 /\ related_model = relationship.related_model
                 /\ related_record_field =
                       IF row.related_record_id # None
                       THEN "related_record_id" ELSE "related_record_uuid"
            /\ ~result.is_forward_lookup =>
                 /\ related_model = relationship.origin_model
                 /\ related_record_field =
                       IF row.record_id # None THEN "record_id" ELSE "record_uuid"
            /\ ExactlyOnePopulated(row) => row[related_record_field] # None

\* a forward lookup on a join record from an id to a uuid
C30_Witness ==
    /\ result # <<>> /\ result.op = "prepare_lookup_kwargs"
    /\ result.is_forward_lookup
    /\ result.join_record.relationship = UserKey
    /\ result.join_record.record_id = "1" /\ result.join_record.record_uuid = None
    /\ result.join_record.related_record_id = None
    /\ result.join_record.related_record_uuid = "u2"
    /\ result.value = <<"CoreUser", "related_record_uuid">>

-----------------------------------------------------------------------------
(* Claims about the seeders *)

Ran == result # <<>> /\ result.op = "run_seed"

\* C22: a run of run_seed that repeats the run before it, with the same
\* files and on the tables as that run left them, leaves the
\* LogicModuleModel, Relationship and JoinRecord tables as it found them.
C22_SeedIdempotent ==
    (Ran /\ result.again) => Tables = result.was

\* a second run over files that seed all three relationships
C22_Witness ==
    /\ Ran /\ result.again /\ result.raised = ""
    /\ \A k \in {TeamKey, ToolKey, UserKey} : Of(store, k) # EmptyBag
    /\ models = {ProductModel, ProductTeamModel, ProductToolsModel, CoreUserModel}

\* the (product tool pk, user uuid) pairs of ProductTeam.json
FilePairs(product_team_json) ==
    UNION {{<<product_team_json[i].pk, product_team_json[i].users[j]>> :
               j \in {n \in DOMAIN product_team_json[i].users :
                         Len(str[product_team_json[i].users[n]]) = 36}} :
           i \in DOMAIN product_team_json}

-----------------------------------------------------------------------------
(* Further claims about the orchestrator *)

\* a sub-object listed under the relationship carries previous_pk
Relinks(relationship) ==
    \E i \in DOMAIN Listed(relationship) : "previous_pk" \in DOMAIN Listed(relationship)[i]

\* C23: in a PUT/PATCH with join, the deletion that a sub-object with
\* previous_pk triggers removes JoinRecords of that sub-object's relationship
\* only: the JoinRecords of a relationship none of whose sub-objects carries
\* previous_pk stay as the request found them, also those that link the
\* same two PKs.
C23_DeleteWithinRelationship ==
    PutJoin =>
      \A k \in Relationships :
         ~Relinks(k) => Of(store, k) = Of(sent.store, k)

-----------------------------------------------------------------------------
(* Further claims about delete_join_record *)

\* C24: delete_join_record(pk) without previous_pk leaves in place, as often
\* as the table held it, every JoinRecord none of whose four PK fields
\* equals pk; a record whose PK only contains the text of pk stays.
C24_DeleteKeepsOthers ==
    (last.op = "delete_join_record" /\ last.related = None /\ last.raised = "") =>
        \A row \in Rows(last.was) :
            (\A f \in PkFields : row[f] # last.origin) =>
                CopiesIn(row, store) = CopiesIn(row, last.was)

-----------------------------------------------------------------------------
(* Further claims about prepare_update_request *)

\* C25: in a PUT/PATCH with join a sub-object that carries previous_pk and
\* no join key is an ordinary update: once the orchestrator is through with
\* it, no JoinRecord has been deleted or created, no exception has ended the
\* request, and the backend call for it was issued with the inbound method
\* and the sub-object's PK.
C25_RelinkNeedsJoinKey ==
    PutJoin =>
      \A r \in 1..2 : \A i \in DOMAIN loop.items[r].data :
         LET sub == loop.items[r].data[i]
         IN  (/\ "previous_pk" \in DOMAIN sub /\ "join" \notin DOMAIN sub
              /\ Taken(r, i) /\ pc # "validate") =>
                /\ raised = ""
                /\ store = sent.store
                /\ Completed(r, i) =>
                      \E c \in CallsAt(r, i) :
                          /\ calls[c].method = sent.method
                          /\ calls[c].pk = Get(sub, PkNameAt(r))

-----------------------------------------------------------------------------
(* Claims about retrieve_relationship_data *)

\* C26: when retrieve_relationship_data has returned, the inbound request is
\* as the client sent it: its method is the original request_method and its
\* data is the body the client sent.
C26_RequestUnaltered ==
    pc = "done" =>
        /\ request.method = sent.method
        /\ request.data = sent.body

Handling == pc \notin {"idle", "done", "error"}

\* one step of the loops of retrieve_relationship_data
C28_Step ==
    /\ Handling => loop'.items = loop.items
    /\ (Handling /\ loop' # loop) =>
          \/ /\ loop'.ri = loop.ri /\ loop'.ii = loop.ii + 1
             /\ loop.ii < Len(Current.data)
             /\ pc = "next" /\ pc' = "validate"
             /\ request'.data = Current.data[loop.ii + 1]
          \/ /\ loop'.ri = loop.ri + 1 /\ loop'.ii = 0
             /\ loop.ii = Len(Current.data)
             /\ Current.data = <<>> => pc = "next"
    /\ (pc' = "done" /\ pc # "done") => loop.ri = Len(loop.items) + 1

\* C28: retrieve_relationship_data goes through the keys of
\* datamesh_relationship once and in order, with the lists it read from the
\* body before the body was cleared: a key without data is handled in one
\* step by validate_relationship_data, the sub-objects of a list are handed
\* to validate_request one after the other in list order, none twice and
\* none skipped, and the function returns only after the last key.
C28_EveryKeyOnceInOrder == [][C28_Step]_vars

\* a request with two sub-objects under the first key and nothing under the
\* second has returned
C28_Witness ==
    /\ pc = "done"
    /\ Len(Listed(TeamKey)) = 2 /\ Listed(ToolKey) = <<>>
    /\ loop.items[1].data = Listed(TeamKey)
    /\ request.data = Listed(TeamKey)[2]
    /\ Cardinality(CallsAt(1, 1)) = 1 /\ Cardinality(CallsAt(1, 2)) = 1
    /\ loop.ri = 3

-----------------------------------------------------------------------------
(* Claims about the organization of a JoinRecord *)

\* C27: every JoinRecord of the table has organization null, also those
\* written while the handler holds the organization of the inbound session:
\* the organization validate_request reads is not passed to the store.
C27_OrganizationNull ==
    \A row \in Rows(store) : row.organization = None

\* a request of a session with an organization has written a JoinRecord
C27_Witness ==
    /\ PostJoin /\ pc = "done"
    /\ request.session.jwt_organization_uuid = "org1"
    /\ self # <<>> /\ self.organization = "org1"
    /\ BagCardinality(store) > BagCardinality(sent.store)

====
